---- MODULE Spec2Model ----
(***************************************************************************)
(* Model of the ChatMode artifact generator of orka-reasoning:             *)
(*   orka/cli/chatmode.py       HighLevelArchitectChatMode (the dispatcher *)
(*                              and the per-artifact generators)           *)
(*   orka/agents/architectural_documentation_agent.py                      *)
(*                              ArchitecturalDocumentationAgent (adapter)  *)
(*   orka/cli/chatmode_cli.py   handle_architect_command (the CLI handler) *)
(*                                                                         *)
(* Strings are TLA+ strings.  A text that the code scans (the adapter's    *)
(* input_data) is a sequence of tokens: "=" , "\n" , " " and words that    *)
(* hold none of these three characters.  The content of a generated file   *)
(* is the sequence of the pieces of its f-string, literal pieces and       *)
(* interpolated values alternating, so that "the content contains X        *)
(* followed by the value of user_name" is a statement about pieces.        *)
(***************************************************************************)
EXTENDS Integers, Sequences, FiniteSets, TLC

VARIABLES
    clock,        \* the wall clock, in seconds (datetime.now())
    dirs,         \* directories that exist, among "ws", "docs", "docs/diagrams"
    files,        \* the files on disk: path -> content
    calls,        \* number of requests started so far
    entry,        \* who was called: "none", "core" (process), "agent" or "cli"
    pc,           \* position of the running request
    req,          \* arguments of HighLevelArchitectChatMode.process
    filepath,     \* local `filepath` of the top-level generator
    content,      \* local `content` of the top-level generator
    diagram,      \* local `diagram_result` of the composite generators
    written,      \* paths opened for writing by the running request, in order
    result,       \* value returned by process, <<>> while there is none
    error,        \* exception raised by process, <<>> while there is none
    initialized,  \* ArchitecturalDocumentationAgent.chatmode is not None
    input_data,   \* the adapter's input text
    context,      \* the adapter's context mapping
    params,       \* the adapter's merged parameters
    envelope,     \* value returned by the adapter, <<>> while there is none
    before,       \* the disk when the running request was made: [dirs, files]
    config,       \* HighLevelArchitectChatMode.config, the ChatModeConfig
    args,         \* the parsed command line of the CLI handler, <<>> when none
    exit_code,    \* value returned by the CLI handler, <<>> while there is none
    stdout,       \* what the CLI handler has printed, line by line
    race          \* two requests running side by side: process -> its frame

vars == <<clock, dirs, files, calls, entry, pc, req, filepath, content,
          diagram, written, result, error, initialized, input_data, context,
          params, envelope, before, config, args, exit_code, stdout, race>>

coreVars == <<req, filepath, content, diagram, written, result, error>>
agentVars == <<input_data, context, params, envelope, before>>
cliVars == <<args, exit_code, stdout>>

(***************************************************************************)
(* Bounds                                                                  *)
(***************************************************************************)
MaxClock == 1
MaxCalls == 1
MaxTextLen == 6

(***************************************************************************)
(* Mappings (Python dict) and optional values                              *)
(***************************************************************************)
EmptyMap == [k \in {} |-> ""]

MapPut(m, k, v) == [x \in DOMAIN m \cup {k} |-> IF x = k THEN v ELSE m[x]]

\* dict.update(other)
MapUpdate(m, other) ==
    [x \in DOMAIN m \cup DOMAIN other |-> IF x \in DOMAIN other THEN other[x] ELSE m[x]]

\* None is <<>>, a value v is <<v>>
None == <<>>
Some(v) == <<v>>

(***************************************************************************)
(* The enumerations of process                                             *)
(***************************************************************************)
ArtifactTypes == {"doc", "diagram", "testcases", "gapscan", "usecases"}
Depths == {"overview", "subsystem", "interface-only"}
DiagramTypes == {"sequence", "flowchart", "class", "er", "state"}

(***************************************************************************)
(* Input sets                                                              *)
(***************************************************************************)
ArtifactTypeInputs == ArtifactTypes \cup {"bogus"}
DepthInputs == Depths \cup {"deep"}
DiagramInputs == DiagramTypes \cup {"gantt"}
UserNames == {"Alice"}
Prompts == {"Document auth"}
Targets == {"AuthService"}

ConstraintInputs ==
    {None, Some(EmptyMap), Some([k \in {"format", "outputDir"} |-> "x"])}
    \cup {Some([k \in {"diagram"} |-> d]) : d \in DiagramInputs}

Requests ==
    [prompt : Prompts, targets : Targets, artifact_type : ArtifactTypeInputs,
     depth : DepthInputs, constraints : ConstraintInputs, user_name : UserNames]


(***************************************************************************)
(* Paths and the filesystem                                                *)
(***************************************************************************)
docs_folder == "docs"
diagrams_folder == "docs/diagrams"

\* f"{stem}_{timestamp}{ext}" under a folder; timestamp has second resolution
Path(folder, stem, timestamp, ext) ==
    [folder |-> folder, stem |-> stem, ts |-> timestamp, ext |-> ext]

PathStr(p) == p.folder \o "/" \o p.stem \o "_" \o ToString(p.ts) \o p.ext

Exists(fs, p) == p \in DOMAIN fs

\* open(filepath, 'w') followed by f.write(content): the three outcomes.
\* A failure of open leaves the disk as it was; a failure of write comes
\* after open has created or truncated the file.
OSErrorOf(p) == [type |-> "OSError", msg |-> <<"[Errno] ", PathStr(p)>>]

\* an open that is never followed by the write
WriteFile_Unwritten(fs, p, c) ==
    { [ok |-> TRUE,  files |-> MapPut(fs, p, <<>>)],
      [ok |-> FALSE, files |-> fs] }

WriteFile(fs, p, c) ==
    { [ok |-> TRUE,  files |-> MapPut(fs, p, c)],
      [ok |-> FALSE, files |-> fs],
      [ok |-> FALSE, files |-> MapPut(fs, p, <<>>)] }

(***************************************************************************)
(* Content generators                                                      *)
(***************************************************************************)
_generate_footer(user_name) ==
    <<"_Generated with GitHub Copilot ", "as directed by ", user_name, "_">>

_create_documentation_content(prompt, targets, depth, user_name) ==
    <<"# Architecture Documentation for ", targets,
      "\n\n## Executive Summary\nThis document provides ", depth,
      " level documentation for: ", prompt,
      "\n\n## System Overview\n\n### Purpose\nThe ", targets,
      " system is designed to handle the following requirements:\n- ", prompt,
      "\n\n### Architecture Principles\n...\n- Backward compatibility\n\n">>
    \o _generate_footer(user_name) \o <<"\n">>

_create_flowchart_content(prompt, targets, depth) ==
    <<"flowchart TD", "\n    A[Start: ", prompt, "] --> B[Initialize ", targets,
      "]\n    B --> C[Process Input]\n...\n    style J fill:#ffcdd2\n">>

sequence_content(prompt, targets, user_name) ==
    <<"sequenceDiagram", "\n    participant User\n    participant System\n    participant ",
      targets, "\n    \n    User->>System: ", prompt, "\n    System->>", targets,
      ": Process Request\n    ", targets,
      "->>System: Return Result\n    System->>User: Provide Response\n    \n    Note over User,",
      targets, ": ">>
    \o _generate_footer(user_name) \o <<"\n">>

class_content(prompt, targets, user_name) ==
    <<"classDiagram", "\n    class ", targets,
      " {\n        +attributes\n        +methods()\n    }\n    \n    class Component {\n        +process()\n        +validate()\n    }\n    \n    ",
      targets, " --> Component : uses\n    \n    note \"">>
    \o _generate_footer(user_name) \o <<"\"\n">>

er_content(prompt, targets, user_name) ==
    <<"erDiagram", "\n    Entity1 ||--o{ Entity2 : relationship\n...\n    \n    note \"">>
    \o _generate_footer(user_name) \o <<"\"\n">>

state_content(prompt, targets, user_name) ==
    <<"stateDiagram-v2", "\n    [*] --> Initial\n    Initial --> Processing : ", prompt,
      "\n    Processing --> Complete : Success\n...\n    Complete --> [*]\n    \n    note \"">>
    \o _generate_footer(user_name) \o <<"\"\n">>

testcases_content(prompt, targets, user_name) ==
    <<"# Test Cases for ", targets, "\n\n## Overview\nTest cases generated for: ", prompt,
      "\n\n## Test Categories\n...\n**Objective**: Verify basic functionality of ", targets,
      "\n**Prerequisites**: System is running\n**Steps**:\n1. Initialize ", targets,
      "\n...\n**Objective**: Verify error handling in ", targets,
      "\n...\n**Expected Result**: Appropriate error message displayed\n\n">>
    \o _generate_footer(user_name) \o <<"\n">>

gapscan_content(prompt, targets, user_name) ==
    <<"# Gap Analysis for ", targets,
      "\n\n## Executive Summary\nGap analysis conducted for: ", prompt,
      "\n\n## Current State Assessment\n...\n| Medium | Security Review | 4 weeks | TBD |\n\n">>
    \o _generate_footer(user_name) \o <<"\n">>

usecases_content(prompt, targets, user_name) ==
    <<"# Use Cases for ", targets, "\n\n## Overview\nUse cases defined for: ", prompt,
      "\n\n## Actors\n...\n**Goal**: ", prompt,
      "\n**Preconditions**: User is authenticated\n**Main Flow**:\n1. User accesses ", targets,
      "\n...\n**Goal**: Manage ", targets, " configuration\n...\n**Goal**: Integrate with ",
      targets, "\n...\n**Postconditions**: Integration is successful\n\n">>
    \o _generate_footer(user_name) \o <<"\n">>

(***************************************************************************)
(* HighLevelArchitectChatMode.process, step by step                        *)
(*                                                                         *)
(* pc: "idle" -> "validate" -> "ensure" -> "route" -> a generator position *)
(* -> "done" | "failed".  req, filepath, diagram, result and error are     *)
(* optional values (None or Some).                                         *)
(***************************************************************************)
Returned ==
    \/ entry = "core" /\ pc \in {"done", "failed"}
    \/ entry = "agent" /\ pc = "agent_done"
    \/ entry = "cli" /\ pc = "cli_done"

R == req[1]

ValueError(prefix, value) == [type |-> "ValueError", msg |-> <<prefix, value>>]

\* a validation that forgets the depth
Validate_ArtifactTypeOnly(artifact_type, depth) ==
    IF artifact_type \notin ArtifactTypes
    THEN Some(ValueError("Invalid artifact_type: ", artifact_type))
    ELSE None

\* chatmode.py 135-140: the first failed membership test raises
Validate(artifact_type, depth) ==
    IF artifact_type \notin ArtifactTypes
    THEN Some(ValueError("Invalid artifact_type: ", artifact_type))
    ELSE IF depth \notin Depths
         THEN Some(ValueError("Invalid depth: ", depth))
         ELSE None

\* Path.mkdir(exist_ok=True) of docs, then of docs/diagrams: the reachable
\* outcomes.  mkdir of an existing directory is a no-op; mkdir under a missing
\* parent raises; any mkdir that has to create may be refused by the system.
Mkdir(ds, parent, d) ==
    IF d \in ds THEN {[ok |-> TRUE, dirs |-> ds]}
    ELSE IF parent \notin ds THEN {[ok |-> FALSE, dirs |-> ds]}
    ELSE {[ok |-> TRUE, dirs |-> ds \cup {d}], [ok |-> FALSE, dirs |-> ds]}

\* only the documents folder is created
_ensure_directories_DocsOnly(ds) == Mkdir(ds, "ws", docs_folder)

_ensure_directories(ds) ==
    UNION { IF a.ok THEN Mkdir(a.dirs, docs_folder, diagrams_folder) ELSE {a}
            : a \in Mkdir(ds, "ws", docs_folder) }

\* chatmode.py 209-224: second-level routing of artifact_type == "diagram"
DiagramType(constraints) ==
    IF constraints # None /\ constraints[1] # EmptyMap /\ "diagram" \in DOMAIN constraints[1]
    THEN constraints[1]["diagram"]
    ELSE "flowchart"

\* the "er" branch calling the class generator
DiagramRoute_ErAsClass(constraints) ==
    LET diagram_type == DiagramType(constraints) IN
    IF diagram_type \in {"sequence", "flowchart", "class", "state"} THEN diagram_type
    ELSE IF diagram_type = "er" THEN "class"
    ELSE "flowchart"

\* an unrecognized kind falling through to the sequence generator
DiagramRoute_FallbackSequence(constraints) ==
    LET diagram_type == DiagramType(constraints) IN
    IF diagram_type \in DiagramTypes THEN diagram_type ELSE "sequence"

DiagramRoute(constraints) ==
    LET diagram_type == DiagramType(constraints) IN
    IF diagram_type = "sequence" THEN "sequence"
    ELSE IF diagram_type = "flowchart" THEN "flowchart"
    ELSE IF diagram_type = "class" THEN "class"
    ELSE IF diagram_type = "er" THEN "er"
    ELSE IF diagram_type = "state" THEN "state"
    ELSE "flowchart"

\* the fixed skeleton of each diagram generator
DiagramContent(kind, r) ==
    CASE kind = "sequence"  -> sequence_content(r.prompt, r.targets, r.user_name)
      [] kind = "flowchart" -> _create_flowchart_content(r.prompt, r.targets, r.depth)
      [] kind = "class"     -> class_content(r.prompt, r.targets, r.user_name)
      [] kind = "er"        -> er_content(r.prompt, r.targets, r.user_name)
      [] kind = "state"     -> state_content(r.prompt, r.targets, r.user_name)

\* the name prefix and the content of each top-level document generator
DocStem(artifact_type) ==
    CASE artifact_type = "doc"       -> "architecture_doc"
      [] artifact_type = "testcases" -> "testcases"
      [] artifact_type = "gapscan"   -> "gapscan"
      [] artifact_type = "usecases"  -> "usecases"

DocContent(artifact_type, r) ==
    CASE artifact_type = "doc" ->
            _create_documentation_content(r.prompt, r.targets, r.depth, r.user_name)
      [] artifact_type = "testcases" -> testcases_content(r.prompt, r.targets, r.user_name)
      [] artifact_type = "gapscan"   -> gapscan_content(r.prompt, r.targets, r.user_name)
      [] artifact_type = "usecases"  -> usecases_content(r.prompt, r.targets, r.user_name)

DiagramResult(p, kind, c) ==
    [diagram_file |-> p, diagram_type |-> kind, content |-> c]

DocumentResult(p, diagramFiles, c) ==
    [document |-> p, diagramFiles |-> diagramFiles, content |-> c]

(***************************************************************************)
(* ChatModeConfig                                                          *)
(***************************************************************************)
\* chatmode.py 35-51: the constructor stores its eight arguments
ChatModeConfig(name, role, scope, inputs, outputs, constraints, behaviors, tools) ==
    [name |-> name, role |-> role, scope |-> scope, inputs |-> inputs,
     outputs |-> outputs, constraints |-> constraints, behaviors |-> behaviors,
     tools |-> tools]

\* chatmode.py 68-110
_load_config ==
    ChatModeConfig(
        "high-level-big-picture-architect",
        [level |-> "PrincipalSystemsArchitect",
         mission |-> "Explain and document software systems at a high level for fast onboarding, architectural clarity, and gap discovery."],
        [focus |-> "Interfaces, contracts, data flows, major components, reliability behaviors, error surfaces, and integration points."],
        [prompt |-> [required |-> TRUE],
         targets |-> [required |-> TRUE],
         artifactType |-> [required |-> TRUE,
                           enum |-> <<"doc", "diagram", "testcases", "gapscan", "usecases">>],
         depth |-> [required |-> FALSE, default |-> "overview",
                    enum |-> <<"overview", "subsystem", "interface-only">>],
         constraints |-> [required |-> FALSE]],
        [document |-> [type |-> "markdownOrConfluence"],
         diagramFiles |-> [type |-> "mermaidFileRefs"]],
        [preferredDocsFolder |-> "docs/",
         diagramFolder |-> "docs/diagrams/",
         diagramDefaultMode |-> "file",
         enforceDiagramEngine |-> "mermaid",
         noOtherDiagramFormats |-> TRUE,
         defaultFormat |-> "markdown",
         footerRequired |-> TRUE,
         footerTemplate |-> "_Generated with GitHub Copilot as directed by {USER_NAME_PLACEHOLDER}",
         noGuessing |-> TRUE,
         iterationUntilComplete |-> TRUE],
        [askIfMissing |-> TRUE, highlightGaps |-> TRUE],
        <<"codebase", "search", "findTestFiles", "runTests", "editFiles", "runCommands">>)

\* the request's constraints merged into the configured ones
ConfigAfterProcess_Merged(cfg, constraints) ==
    IF constraints # None
    THEN [cfg EXCEPT !.constraints = MapUpdate(@, constraints[1])]
    ELSE cfg

\* chatmode.py 112-157 and the generators: self.config is not assigned, and
\* none of its fields is written; constraints is the request's own mapping
ConfigAfterProcess(cfg, constraints) == cfg

\* no pair of side-by-side requests (the frames are used by SpecRace only)
NoRace == <<>>

----------------------------------------------------------------------------
Init ==
    /\ clock = 0
    /\ dirs \in {{}, {"ws"}, {"ws", docs_folder}, {"ws", docs_folder, diagrams_folder}}
    /\ files = EmptyMap
    /\ calls = 0
    /\ entry = "none"
    /\ pc = "idle"
    /\ req = None
    /\ filepath = None
    /\ content = <<>>
    /\ diagram = None
    /\ written = <<>>
    /\ result = None
    /\ error = None
    /\ initialized = FALSE
    /\ input_data = <<>>
    /\ context = EmptyMap
    /\ params = EmptyMap
    /\ envelope = None
    /\ before = [dirs |-> dirs, files |-> files]
    /\ config = _load_config
    /\ args = None
    /\ exit_code = None
    /\ stdout = <<>>
    /\ race = NoRace

\* one second passes
Tick ==
    /\ clock < MaxClock
    /\ clock' = clock + 1
    /\ UNCHANGED <<config, cliVars, race, dirs, files, calls, entry, pc, coreVars, initialized, agentVars>>

\* a caller invokes process(prompt, targets, artifact_type, depth, constraints, user_name)
Enter(r) ==
    /\ req' = Some(r)
    /\ filepath' = None
    /\ content' = <<>>
    /\ diagram' = None
    /\ written' = <<>>
    /\ result' = None
    /\ error' = None
    /\ config' = ConfigAfterProcess(config, r.constraints)
    /\ pc' = "validate"

Process ==
    /\ pc = "idle"
    /\ calls < MaxCalls
    /\ calls' = calls + 1
    /\ entry' = "core"
    /\ \E r \in Requests : Enter(r)
    /\ input_data' = <<>>
    /\ context' = EmptyMap
    /\ params' = EmptyMap
    /\ envelope' = None
    /\ before' = [dirs |-> dirs, files |-> files]
    /\ UNCHANGED <<cliVars, race, clock, dirs, files, initialized>>

\* a failure that starts the request over
Fail_Retry(e) ==
    /\ pc' = "validate"
    /\ error' = Some(e)

Fail(e) ==
    /\ pc' = "failed"
    /\ error' = Some(e)

\* chatmode.py 135-140
ValidateInputs ==
    /\ pc = "validate"
    /\ LET e == Validate(R.artifact_type, R.depth) IN
        IF e # None
        THEN /\ pc' = "failed"
             /\ error' = e
        ELSE /\ pc' = "ensure"
             /\ UNCHANGED error
    /\ UNCHANGED <<config, cliVars, race, clock, dirs, files, calls, entry, req, filepath, content, diagram,
                   written, result, initialized, agentVars>>

\* chatmode.py 142-143, 159-162
EnsureDirectories ==
    /\ pc = "ensure"
    /\ \E o \in _ensure_directories(dirs) :
        /\ dirs' = o.dirs
        /\ IF o.ok
           THEN pc' = "route" /\ UNCHANGED error
           ELSE Fail([type |-> "OSError", msg |-> <<"[Errno] ", "mkdir">>])
    /\ UNCHANGED <<config, cliVars, race, clock, files, calls, entry, req, filepath, content, diagram,
                   written, result, initialized, agentVars>>

\* chatmode.py 145-157: the top-level generator is entered; the document
\* generators read the clock and build filepath and content first thing
\* (186-191, 368-417, 431-495, 509-579)
Route ==
    /\ pc = "route"
    /\ IF R.artifact_type = "diagram"
       THEN /\ pc' = "diagram"
            /\ UNCHANGED <<filepath, content>>
       ELSE /\ pc' = R.artifact_type
            /\ filepath' = Some(Path(docs_folder, DocStem(R.artifact_type), clock, ".md"))
            /\ content' = DocContent(R.artifact_type, R)
    /\ UNCHANGED <<config, cliVars, race, clock, dirs, files, calls, entry, req, diagram, written, result,
                   error, initialized, agentVars>>

\* what stays as it is while a generator runs
GenFrame == UNCHANGED <<config, cliVars, race, clock, dirs, calls, entry, req, initialized, agentVars>>

\* the five diagram generators (chatmode.py 226-363): name prefix, returned
\* diagram_type literal; the path is built from the clock at the call
DiagramStem(kind) ==
    CASE kind = "flowchart" -> "flowchart"
      [] kind = "sequence"  -> "sequence"
      [] kind = "class"     -> "class"
      [] kind = "er"        -> "er"
      [] kind = "state"     -> "state"

DiagramLiteral(kind) ==
    CASE kind = "flowchart" -> "flowchart"
      [] kind = "sequence"  -> "sequence"
      [] kind = "class"     -> "class"
      [] kind = "er"        -> "er"
      [] kind = "state"     -> "state"

DiagramPath(kind, now) == Path(diagrams_folder, DiagramStem(kind), now, ".mmd")

\* a diagram generator that cleans up the documents folder when its write fails
GenerateDiagramFile_Rollback(kind, fs, r, now) ==
    LET p == DiagramPath(kind, now)
        c == DiagramContent(kind, r)
        kept(f) == [q \in {q \in DOMAIN f : q.folder = diagrams_folder} |-> f[q]]
    IN  { [ok |-> o.ok, files |-> IF o.ok THEN o.files ELSE kept(o.files), path |-> p,
           ret |-> DiagramResult(p, DiagramLiteral(kind), c)] : o \in WriteFile(fs, p, c) }

\* a diagram generator that honours constraints["outputDir"]
GenerateDiagramFile_OutputDir(kind, fs, r, now) ==
    LET folder == IF r.constraints # None /\ "outputDir" \in DOMAIN r.constraints[1]
                  THEN r.constraints[1]["outputDir"] ELSE diagrams_folder
        p == Path(folder, DiagramStem(kind), now, ".mmd")
        c == DiagramContent(kind, r)
    IN  { [ok |-> o.ok, files |-> o.files, path |-> p,
           ret |-> DiagramResult(p, DiagramLiteral(kind), c)] : o \in WriteFile(fs, p, c) }

\* one call of a diagram generator: the outcomes, each with the disk it leaves
\* and, when the write succeeded, the returned mapping
GenerateDiagramFile(kind, fs, r, now) ==
    LET p == DiagramPath(kind, now)
        c == DiagramContent(kind, r)
    IN  { [ok |-> o.ok, files |-> o.files, path |-> p,
           ret |-> DiagramResult(p, DiagramLiteral(kind), c)] : o \in WriteFile(fs, p, c) }

\* the fixed pairing of the composite generators: _generate_documentation
\* calls _generate_flowchart_diagram (198), _generate_usecases calls
\* _generate_sequence_diagram (582); constraints are passed on and not read
\* a companion chosen by constraints["diagram"], as _generate_diagram does
CompanionKind_Routed(artifact_type, constraints) ==
    IF constraints # None /\ "diagram" \in DOMAIN constraints[1]
       /\ constraints[1]["diagram"] \in DiagramTypes
    THEN constraints[1]["diagram"]
    ELSE IF artifact_type = "doc" THEN "flowchart" ELSE "sequence"

\* both composite generators calling the flowchart generator
CompanionKind_AlwaysFlowchart(artifact_type, constraints) == "flowchart"

CompanionKind(artifact_type, constraints) ==
    IF artifact_type = "doc" THEN "flowchart" ELSE "sequence"

\* _generate_documentation, 193-195: the document is written
GenerateDocumentation ==
    /\ pc = "doc"
    /\ \E o \in WriteFile(files, filepath[1], content) :
        /\ files' = o.files
        /\ IF o.ok
           THEN /\ pc' = "doc_diagram"
                /\ written' = Append(written, filepath[1])
                /\ UNCHANGED error
           ELSE /\ Fail(OSErrorOf(filepath[1]))
                /\ UNCHANGED written
    /\ UNCHANGED <<filepath, content, diagram, result>>
    /\ GenFrame

\* _generate_documentation, 197-204: the accompanying flowchart, then return
GenerateDocumentationDiagram ==
    /\ pc = "doc_diagram"
    /\ \E o \in GenerateDiagramFile(CompanionKind("doc", R.constraints), files, R, clock) :
        /\ files' = o.files
        /\ IF o.ok
           THEN /\ diagram' = Some(o.ret)
                /\ written' = Append(written, o.path)
                /\ result' = Some(DocumentResult(filepath[1],
                                   IF diagram' # None THEN <<diagram'[1].diagram_file>> ELSE <<>>,
                                   content))
                /\ pc' = "done"
                /\ UNCHANGED error
           ELSE /\ Fail(OSErrorOf(o.path))
                /\ UNCHANGED <<diagram, written, result>>
    /\ UNCHANGED <<filepath, content>>
    /\ GenFrame

\* _generate_diagram, 206-224, and the generator it routes to
GenerateDiagram ==
    /\ pc = "diagram"
    /\ \E o \in GenerateDiagramFile(DiagramRoute(R.constraints), files, R, clock) :
        /\ files' = o.files
        /\ IF o.ok
           THEN /\ written' = Append(written, o.path)
                /\ result' = Some(o.ret)
                /\ pc' = "done"
                /\ UNCHANGED error
           ELSE /\ Fail(OSErrorOf(o.path))
                /\ UNCHANGED <<written, result>>
    /\ UNCHANGED <<filepath, content, diagram>>
    /\ GenFrame

\* a document generator that also writes and returns a flowchart, as
\* _generate_documentation does
WriteDocument_WithFlowchart(at) ==
    /\ pc = at
    /\ \E o \in WriteFile(files, filepath[1], content) :
        IF o.ok
        THEN \E d \in GenerateDiagramFile("flowchart", o.files, R, clock) :
                /\ files' = d.files
                /\ IF d.ok
                   THEN /\ written' = written \o <<filepath[1], d.path>>
                        /\ result' = Some(DocumentResult(filepath[1], <<d.path>>, content))
                        /\ pc' = "done"
                        /\ UNCHANGED error
                   ELSE /\ Fail(OSErrorOf(d.path))
                        /\ UNCHANGED <<written, result>>
        ELSE /\ files' = o.files
             /\ Fail(OSErrorOf(filepath[1]))
             /\ UNCHANGED <<written, result>>
    /\ UNCHANGED <<filepath, content, diagram>>
    /\ GenFrame

\* _generate_testcases 419-426 and _generate_gapscan 497-504: write, return
WriteDocument(at) ==
    /\ pc = at
    /\ \E o \in WriteFile(files, filepath[1], content) :
        /\ files' = o.files
        /\ IF o.ok
           THEN /\ written' = Append(written, filepath[1])
                /\ result' = Some(DocumentResult(filepath[1], <<>>, content))
                /\ pc' = "done"
                /\ UNCHANGED error
           ELSE /\ Fail(OSErrorOf(filepath[1]))
                /\ UNCHANGED <<written, result>>
    /\ UNCHANGED <<filepath, content, diagram>>
    /\ GenFrame

GenerateTestcases == WriteDocument("testcases")

GenerateGapscan == WriteDocument("gapscan")

\* the use-case document written ahead of its sequence diagram
GenerateUsecasesDiagram_DocumentFirst ==
    /\ pc = "usecases"
    /\ \E o \in WriteFile(files, filepath[1], content) :
        /\ files' = o.files
        /\ IF o.ok
           THEN /\ diagram' = Some(DiagramResult(DiagramPath("sequence", clock), "sequence",
                                                 DiagramContent("sequence", R)))
                /\ written' = Append(written, filepath[1])
                /\ pc' = "usecases_write"
                /\ UNCHANGED error
           ELSE /\ Fail(OSErrorOf(filepath[1]))
                /\ UNCHANGED <<diagram, written>>
    /\ UNCHANGED <<filepath, content, result>>
    /\ GenFrame

\* _generate_usecases, 581-582: the sequence diagram comes first
GenerateUsecasesDiagram ==
    /\ pc = "usecases"
    /\ \E o \in GenerateDiagramFile(CompanionKind("usecases", R.constraints), files, R, clock) :
        /\ files' = o.files
        /\ IF o.ok
           THEN /\ diagram' = Some(o.ret)
                /\ written' = Append(written, o.path)
                /\ pc' = "usecases_write"
                /\ UNCHANGED error
           ELSE /\ Fail(OSErrorOf(o.path))
                /\ UNCHANGED <<diagram, written>>
    /\ UNCHANGED <<filepath, content, result>>
    /\ GenFrame

\* _generate_usecases, 584-591: the document is written, then return
GenerateUsecases ==
    /\ pc = "usecases_write"
    /\ \E o \in WriteFile(files, filepath[1], content) :
        /\ files' = o.files
        /\ IF o.ok
           THEN /\ written' = Append(written, filepath[1])
                /\ result' = Some(DocumentResult(filepath[1], <<diagram[1].diagram_file>>, content))
                /\ pc' = "done"
                /\ UNCHANGED error
           ELSE /\ Fail(OSErrorOf(filepath[1]))
                /\ UNCHANGED <<written, result>>
    /\ UNCHANGED <<filepath, content, diagram>>
    /\ GenFrame

(***************************************************************************)
(* ArchitecturalDocumentationAgent: _parse_input                           *)
(***************************************************************************)
Contains(seq, tok) == \E i \in 1..Len(seq) : seq[i] = tok

\* index of the first occurrence of tok in seq, 0 when there is none
RECURSIVE Find(_, _, _)
Find(seq, tok, i) ==
    IF i > Len(seq) THEN 0
    ELSE IF seq[i] = tok THEN i
    ELSE Find(seq, tok, i + 1)

\* str.split(sep): the pieces between the separators, at least one piece
RECURSIVE Split(_, _)
Split(seq, sep) ==
    LET i == Find(seq, sep, 1) IN
    IF i = 0 THEN <<seq>>
    ELSE <<SubSeq(seq, 1, i - 1)>> \o Split(SubSeq(seq, i + 1, Len(seq)), sep)

\* str.strip(): leading and trailing whitespace removed
RECURSIVE LStrip(_)
LStrip(seq) ==
    IF seq # <<>> /\ Head(seq) = " " THEN LStrip(Tail(seq)) ELSE seq

RECURSIVE RStrip(_)
RStrip(seq) ==
    IF seq # <<>> /\ seq[Len(seq)] = " " THEN RStrip(SubSeq(seq, 1, Len(seq) - 1)) ELSE seq

Strip(seq) == RStrip(LStrip(seq))

\* the string a token sequence spells
RECURSIVE Join(_)
Join(seq) == IF seq = <<>> THEN "" ELSE Head(seq) \o Join(Tail(seq))

\* line.split('=', 1): key and value, both stripped
LineKey(line) == Join(Strip(SubSeq(line, 1, Find(line, "=", 1) - 1)))
LineValue(line) == Join(Strip(SubSeq(line, Find(line, "=", 1) + 1, Len(line))))

\* the loop of lines 137-141 over the lines from index i on
RECURSIVE ParseLines(_, _, _)
ParseLines(lines, i, p) ==
    IF i > Len(lines) THEN p
    ELSE LET line == Strip(lines[i]) IN
         ParseLines(lines, i + 1,
                    IF Contains(line, "=") THEN MapPut(p, LineKey(line), LineValue(line)) ELSE p)

\* the text used as the prompt whenever no prompt came out of the parse
_parse_input_PromptFallback(text, ctx) ==
    LET p0 == IF ctx # EmptyMap THEN MapUpdate(EmptyMap, ctx) ELSE EmptyMap
        p1 == IF Contains(text, "=") THEN ParseLines(Split(text, "\n"), 1, p0) ELSE p0
    IN  IF "prompt" \notin DOMAIN p1 THEN MapPut(p1, "prompt", Join(text)) ELSE p1

\* the context applied after the lines of the text, so that it wins
_parse_input_ContextLast(text, ctx) ==
    LET p0 == IF Contains(text, "=") THEN ParseLines(Split(text, "\n"), 1, EmptyMap) ELSE EmptyMap
        p1 == MapUpdate(p0, ctx)
    IN  IF ~Contains(text, "=") /\ "prompt" \notin DOMAIN p1
        THEN MapPut(p1, "prompt", Join(text)) ELSE p1

\* architectural_documentation_agent.py 118-147; a context of None and an
\* empty context are both EmptyMap (`if context:` treats them alike)
_parse_input(text, ctx) ==
    LET p0 == IF ctx # EmptyMap THEN MapUpdate(EmptyMap, ctx) ELSE EmptyMap IN
    IF Contains(text, "=")
    THEN ParseLines(Split(text, "\n"), 1, p0)
    ELSE IF "prompt" \notin DOMAIN p0 THEN MapPut(p0, "prompt", Join(text)) ELSE p0

\* dict.get(key): the value, or the default when the key is absent
Get(m, k, default) == IF k \in DOMAIN m THEN m[k] ELSE default

\* `not params.get(key)`: absent or empty
Missing(m, k) == k \notin DOMAIN m \/ m[k] = ""

\* the messages of targets and artifactType exchanged
MissingParameter_Misnamed(p) ==
    IF Missing(p, "prompt") THEN "prompt"
    ELSE IF Missing(p, "targets") THEN "artifactType"
    ELSE IF Missing(p, "artifactType") THEN "targets"
    ELSE ""

\* lines 77-83: the first missing required parameter, "" when none is
MissingParameter(p) ==
    IF Missing(p, "prompt") THEN "prompt"
    ELSE IF Missing(p, "targets") THEN "targets"
    ELSE IF Missing(p, "artifactType") THEN "artifactType"
    ELSE ""

\* lines 86-93: the arguments handed to chatmode.process
RequestOf(p) ==
    [prompt |-> p["prompt"], targets |-> p["targets"], artifact_type |-> p["artifactType"],
     depth |-> Get(p, "depth", "overview"),
     constraints |-> Get(p, "constraints", None),
     user_name |-> Get(p, "user_name", "User")]

agent_id == "architect-agent"

\* lines 97-106 and 108-116: the two envelopes; str(e) is the message
SuccessEnvelope(res, p) ==
    [success |-> TRUE, result |-> res,
     metadata |-> [agent_id |-> agent_id, artifact_type |-> p["artifactType"],
                   targets |-> p["targets"], depth |-> Get(p, "depth", "overview")]]

\* the failure envelope built from a copy of the success envelope
FailureEnvelope_SuccessFlag(e) ==
    [success |-> TRUE, error |-> e.msg, metadata |-> [agent_id |-> agent_id]]

FailureEnvelope(e) ==
    [success |-> FALSE, error |-> e.msg, metadata |-> [agent_id |-> agent_id]]

(***************************************************************************)
(* Inputs of the adapter                                                   *)
(***************************************************************************)
AgentTexts ==
    { <<"Test", " ", "input">>,
      <<>>,
      <<"prompt", "=", "Document", " ", "auth">>,
      <<"artifactType", "=", "diagram", "\n", "artifactType", " ", "=", " ", "testcases">>,
      <<"targets", "=", "\n", "depth", "=", "deep">>,
      <<" ", "targets", " ", "=", "AuthService", "\n", "note">>,
      <<"x", "=", "y", "=", "z">> }

ContextValues ==
    { v \in [prompt : {"", "Document auth"}, targets : {"", "AuthService"},
             artifactType : {"", "doc", "diagram", "bogus"},
             depth : {"", "subsystem"},
             constraints : {None, Some([k \in {"diagram"} |-> "class"])},
             user_name : {"", "Alice"}] :
        (v.depth = "") = (v.user_name = "") /\ (v.depth = "") = (v.constraints = None) }

\* the context a choice of values stands for: "" leaves the key out (and so
\* does None for constraints)
ContextOf(v) ==
    LET keys == {k \in {"prompt", "targets", "artifactType", "depth", "user_name"} : v[k] # ""}
                \cup (IF v.constraints # None THEN {"constraints"} ELSE {})
    IN [k \in keys |-> v[k]]

AgentContexts == {ContextOf(v) : v \in ContextValues}

\* the caller has its answer (the returned value, the raised exception or the
\* envelope) and drops it; the next request starts from a clean frame
Discard ==
    /\ Returned
    /\ pc' = "idle"
    /\ entry' = "none"
    /\ req' = None
    /\ filepath' = None
    /\ content' = <<>>
    /\ diagram' = None
    /\ written' = <<>>
    /\ result' = None
    /\ error' = None
    /\ input_data' = <<>>
    /\ context' = EmptyMap
    /\ params' = EmptyMap
    /\ envelope' = None
    /\ before' = [dirs |-> dirs, files |-> files]
    /\ args' = None
    /\ exit_code' = None
    /\ stdout' = <<>>
    /\ UNCHANGED <<config, race, clock, dirs, files, calls, initialized>>

----------------------------------------------------------------------------
\* initialize(): the chatmode is constructed; nothing is read or written
Initialize ==
    /\ pc = "idle"
    /\ ~initialized
    /\ initialized' = TRUE
    /\ UNCHANGED <<config, cliVars, race, clock, dirs, files, calls, entry, pc, coreVars, agentVars>>

\* agent.process(input_data, context) is called: line 75
AgentProcess ==
    /\ pc = "idle"
    /\ calls < MaxCalls
    /\ calls' = calls + 1
    /\ entry' = "agent"
    /\ \E text \in AgentTexts, ctx \in AgentContexts :
        /\ input_data' = text
        /\ context' = ctx
        /\ params' = _parse_input(text, ctx)
    /\ envelope' = None
    /\ before' = [dirs |-> dirs, files |-> files]
    /\ pc' = "agent_validate"
    /\ req' = None
    /\ filepath' = None
    /\ content' = <<>>
    /\ diagram' = None
    /\ written' = <<>>
    /\ result' = None
    /\ error' = None
    /\ UNCHANGED <<config, cliVars, race, clock, dirs, files, initialized>>

\* lines 77-83: a missing parameter raises, and line 108 catches it
AgentReject ==
    /\ pc = "agent_validate"
    /\ MissingParameter(params) # ""
    /\ envelope' = Some(FailureEnvelope(
            [type |-> "ValueError",
             msg |-> <<"'", MissingParameter(params), "' parameter is required">>]))
    /\ pc' = "agent_done"
    /\ UNCHANGED <<config, cliVars, race, clock, dirs, files, calls, entry, coreVars, initialized,
                   input_data, context, params, before>>

\* line 86 on an agent that was never initialized: self.chatmode is None
AgentNoChatmode ==
    /\ pc = "agent_validate"
    /\ MissingParameter(params) = ""
    /\ ~initialized
    /\ envelope' = Some(FailureEnvelope(
            [type |-> "AttributeError",
             msg |-> <<"'NoneType' object has no attribute '", "process", "'">>]))
    /\ pc' = "agent_done"
    /\ UNCHANGED <<config, cliVars, race, clock, dirs, files, calls, entry, coreVars, initialized,
                   input_data, context, params, before>>

\* lines 86-93: the dispatcher is called
AgentDispatch ==
    /\ pc = "agent_validate"
    /\ MissingParameter(params) = ""
    /\ initialized
    /\ Enter(RequestOf(params))
    /\ UNCHANGED <<cliVars, race, clock, dirs, files, calls, entry, initialized, agentVars>>

\* lines 95-106 when process returned, lines 108-116 when it raised
AgentReturn ==
    /\ entry \in {"agent", "cli"}
    /\ pc \in {"done", "failed"}
    /\ envelope = None
    /\ envelope' = Some(IF pc = "done" THEN SuccessEnvelope(result[1], params)
                        ELSE FailureEnvelope(error[1]))
    /\ pc' = "agent_done"
    /\ UNCHANGED <<config, cliVars, race, clock, dirs, files, calls, entry, coreVars, initialized,
                   input_data, context, params, before>>

(***************************************************************************)
(* handle_architect_command (chatmode_cli.py 91-149)                       *)
(*                                                                         *)
(* The handler builds a fresh agent, initializes it, and hands it          *)
(* args.prompt as the input text together with a context built from the    *)
(* parsed command line.  The printed lines are sequences of pieces; the    *)
(* leading pictographs of the printed lines are left out.                  *)
(***************************************************************************)
CliPrompts ==
    { <<"Document", " ", "auth">>,
      <<>>,
      <<"artifactType", "=", "bogus">> }

\* chatmode_cli.py 48-87: the positionals and the options with their choices
\* and defaults
CliArgs ==
    { a \in [prompt : CliPrompts, targets : {"AuthService", ""},
             artifact_type : ArtifactTypes, depth : {"overview"},
             diagram_type : {None, Some("er")},
             output_dir : {"docs", "out"}, format : {"markdown", "confluence"},
             user_name : UserNames, workspace : {"ws"}] :
        /\ (a.output_dir = "docs") = (a.format = "markdown")
        /\ a.diagram_type # None => a.artifact_type = "diagram"
        /\ a.targets = "" => a.prompt = <<"Document", " ", "auth">> /\ a.output_dir = "docs" }

\* lines 103-109
CliConstraints(a) ==
    LET constraints == [k \in {"format", "outputDir"} |->
                            IF k = "format" THEN a.format ELSE a.output_dir]
    IN  IF a.diagram_type # None
        THEN MapPut(constraints, "diagram", a.diagram_type[1])
        ELSE constraints

\* lines 112-119
CliContext(a) ==
    [k \in {"prompt", "targets", "artifactType", "depth", "constraints", "user_name"} |->
        CASE k = "prompt"       -> Join(a.prompt)
          [] k = "targets"      -> a.targets
          [] k = "artifactType" -> a.artifact_type
          [] k = "depth"        -> a.depth
          [] k = "constraints"  -> Some(CliConstraints(a))
          [] k = "user_name"    -> a.user_name]

\* a handler that forgets the `return 1` of its else branch
CliExitCode_AlwaysZero(env) == 0

\* lines 124, 141-145: 0 after the success branch, 1 after the else branch
CliExitCode(env) == IF env.success THEN 0 ELSE 1

\* lines 125-139 and 142: what the handler prints
CliOutput(env) ==
    IF env.success
    THEN <<<<"Successfully generated architectural documentation!">>>>
         \o (IF "document" \in DOMAIN env.result
             THEN <<<<"Document: ", PathStr(env.result.document)>>>> ELSE <<>>)
         \o (IF "diagramFiles" \in DOMAIN env.result /\ env.result.diagramFiles # <<>>
             THEN <<<<"Diagrams:">>>>
                  \o [i \in 1..Len(env.result.diagramFiles) |->
                        <<"   - ", PathStr(env.result.diagramFiles[i])>>]
             ELSE <<>>)
    ELSE <<<<"Error: ">> \o env.error>>

\* lines 93-122: agent, initialize, constraints, context, agent.process
CliCommand ==
    /\ pc = "idle"
    /\ calls < MaxCalls
    /\ calls' = calls + 1
    /\ entry' = "cli"
    /\ initialized' = TRUE
    /\ \E a \in CliArgs :
        /\ args' = Some(a)
        /\ input_data' = a.prompt
        /\ context' = CliContext(a)
        /\ params' = _parse_input(a.prompt, CliContext(a))
    /\ exit_code' = None
    /\ stdout' = <<>>
    /\ envelope' = None
    /\ before' = [dirs |-> dirs, files |-> files]
    /\ pc' = "agent_validate"
    /\ req' = None
    /\ filepath' = None
    /\ content' = <<>>
    /\ diagram' = None
    /\ written' = <<>>
    /\ result' = None
    /\ error' = None
    /\ UNCHANGED <<config, race, clock, dirs, files>>

\* lines 124-145: the envelope is printed and turned into the exit code
CliReturn ==
    /\ entry = "cli"
    /\ pc = "agent_done"
    /\ exit_code' = Some(CliExitCode(envelope[1]))
    /\ stdout' = stdout \o CliOutput(envelope[1])
    /\ pc' = "cli_done"
    /\ UNCHANGED <<config, args, race, clock, dirs, files, calls, entry, coreVars,
                   initialized, agentVars>>

Next ==
    \/ Tick
    \/ Process
    \/ ValidateInputs
    \/ EnsureDirectories
    \/ Route
    \/ GenerateDocumentation
    \/ GenerateDocumentationDiagram
    \/ GenerateDiagram
    \/ GenerateTestcases
    \/ GenerateGapscan
    \/ GenerateUsecasesDiagram
    \/ GenerateUsecases
    \/ Initialize
    \/ AgentProcess
    \/ AgentReject
    \/ AgentNoChatmode
    \/ AgentDispatch
    \/ AgentReturn
    \/ CliCommand
    \/ CliReturn
    \/ Discard

Spec == Init /\ [][Next]_vars

\* the steps of one process call.  process is a synchronous, straight-line
\* call: once entered it runs on until it returns or raises, so a step that
\* stays possible is taken.
ProcessStep ==
    \/ ValidateInputs
    \/ EnsureDirectories
    \/ Route
    \/ GenerateDocumentation
    \/ GenerateDocumentationDiagram
    \/ GenerateDiagram
    \/ GenerateTestcases
    \/ GenerateGapscan
    \/ GenerateUsecasesDiagram
    \/ GenerateUsecases

\* direct calls of process only, one after the other
NextCore ==
    \/ Tick
    \/ Process
    \/ ValidateInputs
    \/ EnsureDirectories
    \/ Route
    \/ GenerateDocumentation
    \/ GenerateDocumentationDiagram
    \/ GenerateDiagram
    \/ GenerateTestcases
    \/ GenerateGapscan
    \/ GenerateUsecasesDiagram
    \/ GenerateUsecases
    \/ Discard

SpecLive == Init /\ [][NextCore]_vars /\ WF_vars(ProcessStep)

(***************************************************************************)
(* _parse_input on its own: every text of at most MaxTextLen tokens with   *)
(* every context over the keys "prompt" and "k"                            *)
(***************************************************************************)
ParseTokens == {"prompt", "k", "=", "\n", " "}

ParseTexts == UNION {[1..n -> ParseTokens] : n \in 0..MaxTextLen}

ParseContexts == {[k \in keys |-> "ctx"] : keys \in SUBSET {"prompt", "k"}}

InitParse ==
    /\ clock = 0
    /\ dirs = {"ws"}
    /\ files = EmptyMap
    /\ calls = 0
    /\ entry = "agent"
    /\ pc = "parse"
    /\ req = None
    /\ filepath = None
    /\ content = <<>>
    /\ diagram = None
    /\ written = <<>>
    /\ result = None
    /\ error = None
    /\ initialized = TRUE
    /\ input_data \in ParseTexts
    /\ context \in ParseContexts
    /\ params = EmptyMap
    /\ envelope = None
    /\ before = [dirs |-> dirs, files |-> files]
    /\ config = _load_config
    /\ args = None
    /\ exit_code = None
    /\ stdout = <<>>
    /\ race = NoRace

\* line 75: params = self._parse_input(input_data, context)
ParseInput ==
    /\ pc = "parse"
    /\ params' = _parse_input(input_data, context)
    /\ pc' = "parsed"
    /\ UNCHANGED <<config, cliVars, race, clock, dirs, files, calls, entry, coreVars, initialized,
                   input_data, context, envelope, before>>

NextParse == ParseInput

SpecParse == InitParse /\ [][NextParse]_vars

(***************************************************************************)
(* Two requests side by side                                               *)
(*                                                                         *)
(* Two callers (two threads, or two runs of the CLI on one workspace) call *)
(* process with valid requests of the same artifact type.  Nothing in      *)
(* chatmode.py locks a file, so the steps of the two calls interleave      *)
(* freely.  `with open(filepath, 'w') as f: f.write(content)` is two       *)
(* steps: open creates the file or truncates it, and the write, flushed    *)
(* when the file is closed, puts the content at offset 0 of whatever the   *)
(* file holds by then.  Both directories exist and the disk accepts every  *)
(* open and write, so that a request could fail only because of the other. *)
(*                                                                         *)
(* race.proc[i] is the frame of request i; race.last and race.overlap      *)
(* record, per path, who wrote it last and whether it was ever opened      *)
(* while the other request had it open.                                    *)
(***************************************************************************)
RacePrompts == {"Doc", "Document auth"}
RaceUserNames == {"Al", "Alice"}

RaceRequests ==
    { r \in [prompt : RacePrompts, targets : Targets, artifact_type : ArtifactTypes,
             depth : {"overview"}, constraints : {None}, user_name : RaceUserNames] :
        (r.prompt = "Doc") = (r.user_name = "Al") }

\* the writes of each top-level generator, in the order of the code
WriteOrder(artifact_type) ==
    CASE artifact_type = "doc"      -> <<"document", "diagram">>
      [] artifact_type = "usecases" -> <<"diagram", "document">>
      [] artifact_type = "diagram"  -> <<"diagram">>
      [] OTHER                      -> <<"document">>

\* the diagram generator a request ends in
RaceKind(r) ==
    IF r.artifact_type = "diagram" THEN DiagramRoute(r.constraints)
    ELSE CompanionKind(r.artifact_type, r.constraints)

\* number of characters of a content
RECURSIVE CharLen(_)
CharLen(c) == IF c = <<>> THEN 0 ELSE Len(Head(c)) + CharLen(Tail(c))

\* the last n characters of a content that was overwritten from offset 0
Leftover(n) == ToString(n) \o " trailing characters of the overwritten content"

\* an open that keeps what the file holds
OpenForWrite_NoTruncate(fs, p) == IF p \in DOMAIN fs THEN fs ELSE MapPut(fs, p, <<>>)

\* open(p, 'w'): the file is created, or truncated when it exists
OpenForWrite(fs, p) == MapPut(fs, p, <<>>)

\* f.write(c) and close on a file opened at offset 0 that now holds old
Overlay(old, c) ==
    IF CharLen(old) > CharLen(c)
    THEN c \o <<Leftover(CharLen(old) - CharLen(c))>>
    ELSE c

RaceFrame(r) ==
    [pc |-> "idle", req |-> r, filepath |-> None, k |-> 1, path |-> None,
     diagram_file |-> None, result |-> None]

InitRace ==
    /\ clock = 0
    /\ dirs = {"ws", docs_folder, diagrams_folder}
    /\ files = EmptyMap
    /\ calls = 0
    /\ entry = "race"
    /\ pc = "race"
    /\ req = None
    /\ filepath = None
    /\ content = <<>>
    /\ diagram = None
    /\ written = <<>>
    /\ result = None
    /\ error = None
    /\ initialized = TRUE
    /\ input_data = <<>>
    /\ context = EmptyMap
    /\ params = EmptyMap
    /\ envelope = None
    /\ before = [dirs |-> dirs, files |-> files]
    /\ config = _load_config
    /\ args = None
    /\ exit_code = None
    /\ stdout = <<>>
    /\ \E r1 \in RaceRequests, r2 \in RaceRequests :
        /\ r1.artifact_type = r2.artifact_type
        /\ race = [proc |-> <<RaceFrame(r1), RaceFrame(r2)>>,
                   last |-> EmptyMap, overlap |-> {}]

RaceUnchanged ==
    UNCHANGED <<clock, dirs, calls, entry, pc, coreVars, initialized, agentVars,
                config, cliVars>>

\* process is called: validation and directory creation pass, the top-level
\* generator is entered and the document generators read the clock
RaceProcess(i) ==
    LET f == race.proc[i] IN
    /\ f.pc = "idle"
    /\ Validate(f.req.artifact_type, f.req.depth) = None
    /\ race' = [race EXCEPT
            !.proc[i].pc = "open",
            !.proc[i].filepath =
                IF f.req.artifact_type = "diagram" THEN None
                ELSE Some(Path(docs_folder, DocStem(f.req.artifact_type), clock, ".md"))]
    /\ UNCHANGED files
    /\ RaceUnchanged

\* the content of the write a request is at
RaceContent(f) ==
    IF WriteOrder(f.req.artifact_type)[f.k] = "document"
    THEN DocContent(f.req.artifact_type, f.req)
    ELSE DiagramContent(RaceKind(f.req), f.req)

\* open(filepath, 'w'); a diagram generator reads the clock for its path
RaceOpen(i) ==
    LET f == race.proc[i]
        p == IF WriteOrder(f.req.artifact_type)[f.k] = "document" THEN f.filepath[1]
             ELSE DiagramPath(RaceKind(f.req), clock)
    IN
    /\ f.pc = "open"
    /\ files' = OpenForWrite(files, p)
    /\ race' = [race EXCEPT
            !.proc[i].pc = "write",
            !.proc[i].path = Some(p),
            !.proc[i].diagram_file =
                IF WriteOrder(f.req.artifact_type)[f.k] = "diagram" THEN Some(p) ELSE @,
            !.overlap = IF \E j \in {1, 2} \ {i} :
                                race.proc[j].pc = "write" /\ race.proc[j].path = Some(p)
                        THEN @ \cup {p} ELSE @]
    /\ RaceUnchanged

\* f.write(content) and the close of the with block; after the last write
\* the generator returns its mapping
RaceWrite(i) ==
    LET f == race.proc[i]
        p == f.path[1]
        c == RaceContent(f)
        last == f.k = Len(WriteOrder(f.req.artifact_type))
    IN
    /\ f.pc = "write"
    /\ files' = MapPut(files, p, Overlay(files[p], c))
    /\ race' = [race EXCEPT
            !.proc[i].pc = IF last THEN "done" ELSE "open",
            !.proc[i].k = IF last THEN @ ELSE @ + 1,
            !.proc[i].path = None,
            !.proc[i].result =
                IF ~last THEN None
                ELSE IF f.req.artifact_type = "diagram"
                THEN Some(DiagramResult(p, DiagramLiteral(RaceKind(f.req)), c))
                ELSE Some(DocumentResult(f.filepath[1],
                                         IF f.diagram_file # None THEN <<f.diagram_file[1]>>
                                         ELSE <<>>,
                                         DocContent(f.req.artifact_type, f.req))),
            !.last = MapPut(@, p, i)]
    /\ RaceUnchanged

NextRace ==
    \/ Tick
    \/ \E i \in {1, 2} : RaceProcess(i)
    \/ \E i \in {1, 2} : RaceOpen(i)
    \/ \E i \in {1, 2} : RaceWrite(i)

SpecRace == InitRace /\ [][NextRace]_vars

----------------------------------------------------------------------------
(***************************************************************************)
(* Properties                                                              *)
(***************************************************************************)
Range(seq) == {seq[i] : i \in 1..Len(seq)}

InvalidRequest(r) == r.artifact_type \notin ArtifactTypes \/ r.depth \notin Depths

DiagramKey(constraints) ==
    IF constraints # None /\ "diagram" \in DOMAIN constraints[1]
    THEN constraints[1]["diagram"] ELSE ""

\* every path a returned mapping holds
ResultPaths(r) ==
    (IF "document" \in DOMAIN r THEN {r.document} ELSE {})
    \cup (IF "diagram_file" \in DOMAIN r THEN {r.diagram_file} ELSE {})
    \cup (IF "diagramFiles" \in DOMAIN r THEN Range(r.diagramFiles) ELSE {})

RootKeyword(kind) ==
    CASE kind = "sequence"  -> "sequenceDiagram"
      [] kind = "flowchart" -> "flowchart TD"
      [] kind = "class"     -> "classDiagram"
      [] kind = "er"        -> "erDiagram"
      [] kind = "state"     -> "stateDiagram-v2"

\* the returned mapping r is that of a diagram of the given kind, written by
\* the running request under the kind's name prefix with the kind's skeleton
IsDiagramOf(r, kind) ==
    /\ DOMAIN r = {"diagram_file", "diagram_type", "content"}
    /\ r.diagram_type = kind
    /\ r.diagram_file.folder = diagrams_folder
    /\ r.diagram_file.stem = kind
    /\ r.diagram_file.ext = ".mmd"
    /\ written = <<r.diagram_file>>
    /\ Exists(files, r.diagram_file)
    /\ files[r.diagram_file] = r.content
    /\ r.content[1] = RootKeyword(kind)

\* C1: a process call whose artifact_type or depth is outside its enumeration
\* fails with a ValueError whose message holds the offending value, it never
\* gets past validation, and directories and files are as they were when the
\* call was made.
C1_InvalidRequestRejected ==
    (req # None /\ InvalidRequest(R)) =>
        /\ pc \in {"validate", "failed", "agent_done", "cli_done"}
        /\ result = None
        /\ dirs = before.dirs
        /\ files = before.files
        /\ pc # "validate" =>
            /\ error # None
            /\ error[1].type = "ValueError"
            /\ Contains(error[1].msg,
                        IF R.artifact_type \notin ArtifactTypes THEN R.artifact_type ELSE R.depth)

C1_Witness ==
    /\ entry = "core"
    /\ pc = "failed"
    /\ R.artifact_type = "doc"
    /\ R.depth = "deep"
    /\ before.dirs = {"ws"}
    /\ error[1].msg = <<"Invalid depth: ", "deep">>

\* C2: a process call that returns yields a mapping with a `document` or a
\* `diagram_file` path, and every path of the mapping names a file that is on
\* disk with non-empty content.
C2_ReturnedPathsExist ==
    result # None =>
        /\ R.artifact_type \in ArtifactTypes
        /\ R.depth \in Depths
        /\ "document" \in DOMAIN result[1] \/ "diagram_file" \in DOMAIN result[1]
        /\ \A p \in ResultPaths(result[1]) : Exists(files, p) /\ files[p] # <<>>

C2_Witness ==
    /\ pc = "done"
    /\ R.artifact_type = "usecases"
    /\ Cardinality(ResultPaths(result[1])) = 2
    /\ \A p \in ResultPaths(result[1]) : Exists(files, p) /\ files[p] # <<>>

\* C3: a diagram request with constraints {"diagram": kind}, kind one of the
\* five kinds, returns diagram_type == kind, and the one file it wrote carries
\* that kind's name prefix and that kind's skeleton (its root keyword first).
C3_DiagramKindRouted ==
    \A kind \in DiagramTypes :
        (result # None /\ R.artifact_type = "diagram" /\ DiagramKey(R.constraints) = kind)
            => IsDiagramOf(result[1], kind)

C3_Witness ==
    /\ pc = "done"
    /\ R.artifact_type = "diagram"
    /\ DiagramKey(R.constraints) = "er"
    /\ result[1].diagram_type = "er"
    /\ files[result[1].diagram_file][1] = "erDiagram"

\* C4: a diagram request whose constraints are None, empty, without a
\* `diagram` key or with an unrecognized `diagram` value is not rejected (the
\* only failure it can meet is one of the filesystem) and what it generates
\* and returns is the flowchart.
C4_DiagramFallbackFlowchart ==
    (req # None /\ ~InvalidRequest(R) /\ R.artifact_type = "diagram"
        /\ DiagramKey(R.constraints) \notin DiagramTypes) =>
        /\ error # None => error[1].type = "OSError"
        /\ \A p \in Range(written) : p.stem = "flowchart"
        /\ result # None => IsDiagramOf(result[1], "flowchart")

C4_Witness ==
    /\ pc = "done"
    /\ R.artifact_type = "diagram"
    /\ DiagramKey(R.constraints) = "gantt"
    /\ result[1].diagram_type = "flowchart"
    /\ result[1].content[1] = "flowchart TD"

\* the content holds "as directed by " followed by the user name
HasFooter(c, user_name) ==
    \E i \in 1..(Len(c) - 1) : c[i] = "as directed by " /\ c[i + 1] = user_name

\* C5: every file written by a request, of every artifact kind and diagram
\* kind, holds `as directed by {user_name}` with the user_name of the call.
C5_EveryFileHasFooter ==
    \A p \in Range(written) : HasFooter(files[p], R.user_name)

\* the returned mapping r is that of a document with one companion diagram
\* of the given kind, both written by the running request
IsDocumentWith(r, stem, kind) ==
    /\ DOMAIN r = {"document", "diagramFiles", "content"}
    /\ r.document.folder = docs_folder
    /\ r.document.stem = stem
    /\ r.document.ext = ".md"
    /\ r.document \in Range(written)
    /\ Exists(files, r.document)
    /\ files[r.document] = r.content
    /\ Len(r.diagramFiles) = 1
    /\ LET d == r.diagramFiles[1] IN
        /\ d.folder = diagrams_folder
        /\ d.stem = kind
        /\ d.ext = ".mmd"
        /\ d \in Range(written)
        /\ Exists(files, d)
        /\ files[d][1] = RootKeyword(kind)
    /\ Len(written) = 2

\* C6: a doc request that returns yields a `document` path ending in .md
\* under the documents directory and a `diagramFiles` list with exactly one
\* entry, the .mmd path of the flowchart file written by the same call,
\* whatever constraints["diagram"] is.
C6_DocHasOneFlowchart ==
    (result # None /\ R.artifact_type = "doc")
        => IsDocumentWith(result[1], "architecture_doc", "flowchart")

C6_Witness ==
    /\ pc = "done"
    /\ R.artifact_type = "doc"
    /\ DiagramKey(R.constraints) = "class"
    /\ result[1].document.ext = ".md"
    /\ Len(result[1].diagramFiles) = 1
    /\ result[1].diagramFiles[1].stem = "flowchart"

\* C7: a usecases request that returns yields a `document` path and a
\* `diagramFiles` list with exactly one entry, a sequence diagram file
\* written by the same call, whatever the constraints are.
C7_UsecasesHasOneSequence ==
    (result # None /\ R.artifact_type = "usecases")
        => IsDocumentWith(result[1], "usecases", "sequence")

C7_Witness ==
    /\ pc = "done"
    /\ R.artifact_type = "usecases"
    /\ DiagramKey(R.constraints) = "class"
    /\ Len(result[1].diagramFiles) = 1
    /\ result[1].diagramFiles[1].stem = "sequence"
    /\ files[result[1].diagramFiles[1]][1] = "sequenceDiagram"

RequiredParameters == {"prompt", "targets", "artifactType"}

\* the required parameters that are absent from the merged parameters, and
\* those that are absent or empty
AbsentParameters(p) == {f \in RequiredParameters : f \notin DOMAIN p}
UnsetParameters(p) == {f \in RequiredParameters : f \notin DOMAIN p \/ p[f] = ""}

\* C8: when one of prompt, targets, artifactType is absent from the merged
\* parameters, the adapter returns a failure envelope whose error message
\* names a parameter that is not set, that very parameter when it is the only
\* one not set, and the dispatcher is not called: directories and files are
\* as they were.
C8_MissingParameterEnvelope ==
    (entry = "agent" /\ pc # "parse" /\ AbsentParameters(params) # {}) =>
        /\ pc \in {"agent_validate", "agent_done"}
        /\ req = None
        /\ dirs = before.dirs
        /\ files = before.files
        /\ pc = "agent_done" =>
            /\ envelope # None
            /\ envelope[1].success = FALSE
            /\ "error" \in DOMAIN envelope[1]
            /\ \E f \in UnsetParameters(params) :
                envelope[1].error = <<"'", f, "' parameter is required">>
            /\ \A f \in RequiredParameters :
                UnsetParameters(params) = {f} => envelope[1].error[2] = f

C8_Witness ==
    /\ entry = "agent"
    /\ pc = "agent_done"
    /\ initialized
    /\ UnsetParameters(params) = {"targets"}
    /\ "targets" \notin DOMAIN params
    /\ envelope[1].success = FALSE
    /\ envelope[1].error[2] = "targets"
    /\ req = None
    /\ dirs = {"ws"}

\* the lines of the text that hold "=", stripped, in order
Lines(text) == Split(text, "\n")
Defines(text, i, k) ==
    LET line == Strip(Lines(text)[i]) IN Contains(line, "=") /\ LineKey(line) = k
TextKeys(text) == {k \in {LineKey(Strip(Lines(text)[i])) : i \in 1..Len(Lines(text))} :
                    \E i \in 1..Len(Lines(text)) : Defines(text, i, k)}
LastLine(text, k) ==
    CHOOSE i \in 1..Len(Lines(text)) :
        /\ Defines(text, i, k)
        /\ \A j \in (i + 1)..Len(Lines(text)) : ~Defines(text, j, k)

\* C9: in the merged parameters every key given by a key=value line of the
\* text holds the value of the last such line, whether or not the context has
\* the key; every key the context alone has keeps the context's value.
C9_TextOverridesContext ==
    pc = "parsed" =>
        /\ \A k \in TextKeys(input_data) :
            /\ k \in DOMAIN params
            /\ params[k] = LineValue(Strip(Lines(input_data)[LastLine(input_data, k)]))
        /\ \A k \in DOMAIN context \ TextKeys(input_data) :
            /\ k \in DOMAIN params
            /\ params[k] = context[k]
        /\ DOMAIN params \subseteq TextKeys(input_data) \cup DOMAIN context \cup {"prompt"}

C9_Witness ==
    /\ pc = "parsed"
    /\ DOMAIN context = {"prompt", "k"}
    /\ Len(Lines(input_data)) = 2
    /\ Defines(input_data, 1, "k")
    /\ Defines(input_data, 2, "k")
    /\ LineValue(Strip(Lines(input_data)[1])) # LineValue(Strip(Lines(input_data)[2]))
    /\ params["k"] = LineValue(Strip(Lines(input_data)[2]))
    /\ params["k"] # context["k"]
    /\ params["prompt"] = context["prompt"]

\* C10: the adapter ends every call with an envelope: success == true with
\* the dispatcher's result exactly when the dispatcher returned one, else
\* success == false with an error message, which is the message of the
\* dispatcher's exception when the dispatcher raised.
C10_AlwaysAnEnvelope ==
    /\ (entry = "agent" /\ pc \in {"done", "failed"}) => ENABLED AgentReturn
    /\ (entry = "agent" /\ pc = "agent_validate") =>
            ENABLED (AgentReject \/ AgentNoChatmode \/ AgentDispatch)
    /\ (entry = "agent" /\ pc = "agent_done") =>
        /\ envelope # None
        /\ envelope[1].success = (result # None)
        /\ envelope[1].success =>
            /\ DOMAIN envelope[1] = {"success", "result", "metadata"}
            /\ envelope[1].result = result[1]
        /\ ~envelope[1].success =>
            /\ DOMAIN envelope[1] = {"success", "error", "metadata"}
            /\ envelope[1].error # <<>>
            /\ error # None => envelope[1].error = error[1].msg
            /\ error = None => (UnsetParameters(params) # {} \/ ~initialized)

C10_Witness ==
    /\ entry = "agent"
    /\ pc = "agent_done"
    /\ error # None
    /\ error[1].type = "OSError"
    /\ written # <<>>
    /\ envelope[1].success = FALSE
    /\ envelope[1].error = error[1].msg

\* C11: when handle_architect_command has returned, its exit code is 0 or 1;
\* it is 0 exactly when the adapter's envelope has success true; it is 1 after
\* every missing parameter, every rejected value and every failed generation,
\* and then the one printed line is the error message of the envelope.
C11_ExitCodeFollowsEnvelope ==
    (entry = "cli" /\ pc = "cli_done") =>
        /\ exit_code \in {Some(0), Some(1)}
        /\ (exit_code = Some(0)) = (envelope[1].success = TRUE)
        /\ (UnsetParameters(params) # {} \/ error # None) => exit_code = Some(1)
        /\ (req # None /\ InvalidRequest(R)) => exit_code = Some(1)
        /\ exit_code = Some(1) =>
            /\ stdout = << <<"Error: ">> \o envelope[1].error >>
            /\ error # None => envelope[1].error = error[1].msg
        /\ exit_code = Some(0) =>
            /\ result # None
            /\ Head(stdout) = <<"Successfully generated architectural documentation!">>

C11_Witness ==
    /\ entry = "cli"
    /\ pc = "cli_done"
    /\ error # None
    /\ error[1].type = "OSError"
    /\ exit_code = Some(1)
    /\ stdout = << <<"Error: ">> \o error[1].msg >>

\* the constraints without the two advisory keys
WithoutAdvisory(constraints) ==
    IF constraints = None THEN None
    ELSE Some([k \in DOMAIN constraints[1] \ {"outputDir", "format"} |-> constraints[1][k]])

\* the files a request writes when it reads the clock at ts: path -> content
ExpectedFiles(r, ts) ==
    LET doc == Path(docs_folder, DocStem(r.artifact_type), ts, ".md")
        kind == IF r.artifact_type = "diagram" THEN DiagramRoute(r.constraints)
                ELSE CompanionKind(r.artifact_type, r.constraints)
        dia == DiagramPath(kind, ts)
    IN  CASE r.artifact_type = "diagram" -> [p \in {dia} |-> DiagramContent(kind, r)]
          [] r.artifact_type \in {"doc", "usecases"} ->
                [p \in {doc, dia} |-> IF p = doc THEN DocContent(r.artifact_type, r)
                                      ELSE DiagramContent(kind, r)]
          [] OTHER -> [p \in {doc} |-> DocContent(r.artifact_type, r)]

Phase ==
    CASE req = None -> "None"
      [] req # None /\ pc = "validate" -> "Validating"
      [] req # None /\ pc \in {"ensure", "route"} -> "Routing"
      [] req # None /\ pc \in {"doc", "doc_diagram", "diagram", "testcases", "gapscan",
                               "usecases", "usecases_write"} -> "Generating"
      [] req # None /\ pc \in {"done", "failed", "agent_done", "cli_done"} ->
            IF result # None THEN "Done" ELSE "Failed"

PhaseStep ==
    LET a == Phase
        b == Phase'
    IN  \/ a = b
        \/ a = "None" /\ b = "Validating"
        \/ a = "Validating" /\ b = "Routing"
        \/ a = "Validating" /\ b = "Failed" /\ error'[1].type = "ValueError"
        \/ a = "Routing" /\ b = "Generating"
        \/ a = "Routing" /\ b = "Failed" /\ error'[1].type = "OSError"
        \/ a = "Generating" /\ b = "Done"
        \/ a = "Generating" /\ b = "Failed" /\ error'[1].type = "OSError"
        \/ a \in {"Done", "Failed"} /\ b = "None" /\ req' = None

\* C13: a process call goes Validating -> Routing -> Generating -> Done, or
\* to Failed from Validating with a ValueError or from Routing or Generating
\* with an OSError; a request in Done or Failed changes state no more (it can
\* only be dropped by its caller), no step re-enters Validating from another
\* state of the same request; and every request that is being validated
\* reaches Done or Failed.
C13_Lifecycle ==
    /\ [][PhaseStep]_vars
    /\ (Phase = "Validating") ~> (Phase \in {"Done", "Failed"})

C13_Witness ==
    /\ Phase = "Failed"
    /\ error[1].type = "OSError"
    /\ Len(written) = 1
    /\ R.artifact_type = "usecases"
    /\ entry = "core"

\* the name prefixes of the two files of a composite request, in the order
\* of their writes
FirstStem(artifact_type) == IF artifact_type = "doc" THEN "architecture_doc" ELSE "sequence"
SecondStem(artifact_type) == IF artifact_type = "doc" THEN "flowchart" ELSE "usecases"

\* the running call has raised the error of a write to a file named stem_*
WriteFailedOn(stem) ==
    /\ error # None
    /\ \E ts \in 0..clock, loc \in {<<docs_folder, ".md">>, <<diagrams_folder, ".mmd">>} :
        error[1] = OSErrorOf(Path(loc[1], stem, ts, loc[2]))

\* C14: when the second write of a doc or usecases request fails, the call
\* has raised the error of that write, there is no result, and the file
\* written first is on disk with its complete content; when the first write
\* fails, no file of the second kind has been created or changed.
C14_CompositeWritesNotAtomic ==
    (req # None /\ R.artifact_type \in {"doc", "usecases"} /\ Phase = "Failed"
        /\ ~InvalidRequest(R) /\ error[1].msg # <<"[Errno] ", "mkdir">>) =>
        /\ result = None
        /\ Len(written) \in {0, 1}
        /\ Len(written) = 1 =>
            /\ WriteFailedOn(SecondStem(R.artifact_type))
            /\ written[1].stem = FirstStem(R.artifact_type)
            /\ Exists(files, written[1])
            /\ files[written[1]] = ExpectedFiles(R, written[1].ts)[written[1]]
        /\ Len(written) = 0 =>
            /\ WriteFailedOn(FirstStem(R.artifact_type))
            /\ \A p \in DOMAIN files :
                p.stem = SecondStem(R.artifact_type) =>
                    p \in DOMAIN before.files /\ files[p] = before.files[p]

C14_Witness ==
    /\ req # None
    /\ R.artifact_type = "doc"
    /\ pc = "failed"
    /\ filepath # None
    /\ written = <<filepath[1]>>
    /\ WriteFailedOn("flowchart")
    /\ files[filepath[1]] = content
    /\ result = None

\* the two requests have finished and every file of one is a file of the
\* other: they obtained the same timestamps
SameTimestamps ==
    /\ race.proc[1].pc = "done"
    /\ race.proc[2].pc = "done"
    /\ ResultPaths(race.proc[1].result[1]) = ResultPaths(race.proc[2].result[1])

\* the content request i writes to path p
RaceContentOf(i, p) ==
    IF p.folder = docs_folder
    THEN DocContent(race.proc[i].req.artifact_type, race.proc[i].req)
    ELSE DiagramContent(RaceKind(race.proc[i].req), race.proc[i].req)

\* C15 as stated: after two requests of the same kind with the same
\* timestamps, run one after the other or interleaved, each file holds
\* exactly the complete content of the request that wrote it last.
C15_LastWriterComplete ==
    SameTimestamps =>
        \A p \in ResultPaths(race.proc[1].result[1]) :
            /\ Exists(files, p)
            /\ files[p] = RaceContentOf(race.last[p], p)

\* C15, amended: both requests return, with the same paths, and each path
\* holds one file; the file is the complete content of the request that
\* wrote it last when the two open-and-write pairs on it did not overlap,
\* and otherwise begins with that content and can go on with the tail of
\* the other request's longer content.
C15_LastWriterWinsUnlessOverlapped ==
    SameTimestamps =>
        /\ race.proc[1].result # None
        /\ race.proc[2].result # None
        /\ \A p \in ResultPaths(race.proc[1].result[1]) :
            LET c == RaceContentOf(race.last[p], p) IN
            /\ Exists(files, p)
            /\ p \notin race.overlap => files[p] = c
            /\ p \in race.overlap =>
                /\ SubSeq(files[p], 1, Len(c)) = c
                /\ Len(files[p]) \in {Len(c), Len(c) + 1}

C15_Witness ==
    /\ SameTimestamps
    /\ race.proc[1].req # race.proc[2].req
    /\ race.proc[1].req.artifact_type = "gapscan"
    /\ race.overlap = {}
    /\ race.last[race.proc[1].filepath[1]] = 2
    /\ files[race.proc[1].filepath[1]] = DocContent("gapscan", race.proc[2].req)

OutputDirs == {docs_folder, diagrams_folder}

MkdirFailed == error # None /\ error[1].msg = <<"[Errno] ", "mkdir">>

C17_WritesPerRequest ==
    (req # None /\ Phase = "Done") =>
        LET at == R.artifact_type IN
        /\ Len(written) = IF at \in {"doc", "usecases"} THEN 2 ELSE 1
        /\ Cardinality(Range(written)) = Len(written)
        /\ at # "diagram" =>
            /\ Cardinality({i \in 1..Len(written) : written[i] = result[1].document}) = 1
            /\ result[1].document.ext = ".md"
            /\ Range(written) = {result[1].document} \cup Range(result[1].diagramFiles)
            /\ \A p \in Range(result[1].diagramFiles) : p.ext = ".mmd"
        /\ at \in {"doc", "usecases"} => Len(result[1].diagramFiles) = 1
        /\ at \in {"testcases", "gapscan"} => result[1].diagramFiles = <<>>
        /\ at = "diagram" =>
            /\ written = <<result[1].diagram_file>>
            /\ "diagramFiles" \notin DOMAIN result[1]
        /\ \A p \in DOMAIN files \ Range(written) :
            p \in DOMAIN before.files /\ files[p] = before.files[p]

C17_Witness ==
    /\ req # None
    /\ pc = "done"
    /\ R.artifact_type = "gapscan"
    /\ Len(written) = 1
    /\ result[1].diagramFiles = <<>>
    /\ DOMAIN files = DOMAIN before.files \cup {result[1].document}

\* C18: whatever calls were made, every field of the ChatModeConfig (name,
\* role, scope, inputs, outputs, constraints, behaviors, tools) has the value
\* it was constructed with; in particular the name is
\* "high-level-big-picture-architect" and the diagram engine is "mermaid".
C18_ConfigNeverMutated ==
    /\ DOMAIN config = {"name", "role", "scope", "inputs", "outputs", "constraints",
                        "behaviors", "tools"}
    /\ \A field \in DOMAIN config : config[field] = _load_config[field]
    /\ config.name = "high-level-big-picture-architect"
    /\ config.constraints["enforceDiagramEngine"] = "mermaid"

C18_Witness ==
    /\ req # None
    /\ pc = "done"
    /\ calls = MaxCalls
    /\ R.constraints # None
    /\ "format" \in DOMAIN R.constraints[1]
    /\ config.constraints = _load_config.constraints
    /\ "format" \notin DOMAIN config.constraints

\* C19: a doc request writes its document first and its flowchart second; a
\* usecases request writes its sequence diagram first and its document
\* second, so whenever its document has been written its sequence diagram
\* is on disk already; and when the write of the sequence diagram fails, the
\* request has created or changed no use-case document.
C19_WriteOrder ==
    (req # None /\ R.artifact_type \in {"doc", "usecases"} /\ filepath # None) =>
        /\ (R.artifact_type = "doc" /\ written # <<>>) =>
            /\ written[1] = filepath[1]
            /\ Len(written) = 2 => written[2].stem = "flowchart"
        /\ (R.artifact_type = "usecases" /\ written # <<>>) =>
            /\ written[1].stem = "sequence"
            /\ Exists(files, written[1])
            /\ Len(written) = 2 => written[2] = filepath[1]
        /\ (R.artifact_type = "usecases" /\ filepath[1] \in Range(written)) =>
            /\ Len(written) = 2
            /\ written[1].stem = "sequence"
            /\ files[written[1]] = diagram[1].content
        /\ (R.artifact_type = "usecases" /\ Phase = "Failed" /\ written = <<>>
                /\ ~MkdirFailed) =>
            /\ WriteFailedOn("sequence")
            /\ \A p \in DOMAIN files :
                p.stem = "usecases" => p \in DOMAIN before.files /\ files[p] = before.files[p]

C19_Witness ==
    /\ req # None
    /\ R.artifact_type = "usecases"
    /\ pc = "usecases_write"
    /\ Len(written) = 1
    /\ written[1].stem = "sequence"
    /\ ~Exists(files, filepath[1])

\* the value the last key=value line of the text gives to key k
TextValue(text, k) == LineValue(Strip(Lines(text)[LastLine(text, k)]))

\* C20: the adapter takes its input text for the prompt only when the text
\* holds no "=" and the context has no prompt; of a text that holds "=" only
\* the key=value lines are applied.  So a text-derived artifactType, targets
\* or depth replaces the context's, and the request is validated and routed
\* on it; and a text with "=" but no prompt line, on a context without
\* prompt, ends in a failure envelope naming prompt, the dispatcher not
\* called and nothing written.
C20_TextIsPromptOnlyWithoutEquals ==
    (entry \in {"agent", "cli"} /\ pc # "parse") =>
        LET text == input_data
            assigns == Contains(text, "=")
        IN
        /\ (~assigns /\ "prompt" \notin DOMAIN context) => params["prompt"] = Join(text)
        /\ (~assigns /\ "prompt" \in DOMAIN context) => params["prompt"] = context["prompt"]
        /\ assigns =>
            IF "prompt" \in TextKeys(text) THEN params["prompt"] = TextValue(text, "prompt")
            ELSE IF "prompt" \in DOMAIN context THEN params["prompt"] = context["prompt"]
            ELSE "prompt" \notin DOMAIN params
        /\ (assigns /\ req # None) =>
            /\ "artifactType" \in TextKeys(text) =>
                /\ R.artifact_type = TextValue(text, "artifactType")
                /\ Phase = "Generating" =>
                    pc \in (IF R.artifact_type = "doc" THEN {"doc", "doc_diagram"}
                            ELSE IF R.artifact_type = "usecases"
                            THEN {"usecases", "usecases_write"}
                            ELSE {R.artifact_type})
                /\ (R.artifact_type \notin ArtifactTypes /\ Phase = "Failed") =>
                    error[1] = ValueError("Invalid artifact_type: ", R.artifact_type)
            /\ "targets" \in TextKeys(text) => R.targets = TextValue(text, "targets")
            /\ "depth" \in TextKeys(text) => R.depth = TextValue(text, "depth")
        /\ (assigns /\ "prompt" \notin TextKeys(text) /\ "prompt" \notin DOMAIN context) =>
            /\ req = None
            /\ dirs = before.dirs
            /\ files = before.files
            /\ pc \in {"agent_validate", "agent_done", "cli_done"}
            /\ pc # "agent_validate" =>
                /\ envelope[1].success = FALSE
                /\ envelope[1].error = <<"'", "prompt", "' parameter is required">>

C20_Witness ==
    /\ entry = "agent"
    /\ pc = "agent_done"
    /\ Contains(input_data, "=")
    /\ "artifactType" \in DOMAIN context
    /\ context["artifactType"] = "doc"
    /\ req # None
    /\ R.artifact_type = "testcases"
    /\ written # <<>>
    /\ written[1].stem = "testcases"
    /\ envelope[1].success = TRUE

====
